---- MODULE Spec2Model ----
(***************************************************************************)
(* Model of han/meter_connection.py: ExponentialBackOff, the reader        *)
(* selection of SmartMeterBaseProtocol.data_received with its two          *)
(* message_received policies, and ConnectionManager (close, connect_loop,  *)
(* _try_connect, circuit breaker) running on an asyncio event loop.        *)
(*                                                                         *)
(* asyncio.wait() is modelled as CPython 3.7 - 3.10 runs it: coroutines    *)
(* passed to wait() are wrapped in tasks, and with FIRST_COMPLETED the     *)
(* tasks still pending when wait() returns are left running.               *)
(***************************************************************************)
EXTENDS Integers, Sequences, FiniteSets, Bags, TLC

VARIABLES
    \* ExponentialBackOff (the manager's back_off_connect_error)
    delay,              \* _delay
    max_delay,          \* max_delay
    failures,           \* history: failure() calls since __init__ or the last reset()
    \* SmartMeterBaseProtocol and its sink
    reader_candidates,  \* _reader_candidates: sequence of reader ids
    selected_reader,    \* _selected_reader: reader id, or None
    policy,             \* which subclass: "message" or "payload"
    queue,              \* destination queue, oldest first
    chunk_out,          \* history: what each read() call of the last data_received returned
    fed,                \* history: readers whose read() ran in the last data_received, in order
    n_read,             \* history: messages extracted so far
    would_win,          \* history: positions of the candidates holding a valid message
                        \* for the last chunk, whether they were read or not
    transport,          \* _transport: 1 for the transport of connection_made, or None
    done,               \* _done has its result
    done_sets,          \* history: _done.set_result calls
    close_error,        \* history: transport.close() raised inside connection_lost
    lost_error,         \* history: connection_lost raised
    \* ConnectionManager and the event loop around it
    is_closing,         \* _is_closing (asyncio.Event value)
    connection,         \* _connection: connection id, or None
    lost_sleep,         \* _connection_lost_sleep_before_reconnect
    lost_elapsed,       \* seconds since _connection_lost_last_time, or None
    loop_pc,            \* where connect_loop() is suspended
    loop_protocol,      \* the protocol whose done connect_loop() awaits
    waiter,             \* the _is_closing.wait() task raced by the pending wait()
    task,               \* the _try_connect() task the pending wait() holds
    orphans,            \* the _try_connect() tasks a wait() left pending: a bag
    conns,              \* the (transport, protocol) pairs the factory has returned
    runs                \* history: connect_loop() calls so far

bo_vars  == <<delay, max_delay, failures>>
lc_vars  == <<transport, done, done_sets, close_error, lost_error>>
pr_vars  == <<reader_candidates, selected_reader, policy, queue, chunk_out, fed, n_read,
              would_win, lc_vars>>
cm_vars  == <<is_closing, connection, lost_sleep, lost_elapsed, loop_pc, loop_protocol,
              waiter, task, orphans, conns, runs>>
vars     == <<bo_vars, pr_vars, cm_vars>>

\* Python's None for ids and for the elapsed time.
None == 0 - 1

Min(a, b) == IF a < b THEN a ELSE b
Max(a, b) == IF a > b THEN a ELSE b

---------------------------------------------------------------------------
(* Bounds *)

\* failure() is not called more than this many times in a row.
MaxFailures == 7
\* ExponentialBackOff alone is explored with max_delay in 0..MaxCap and the default.
MaxCap == 12

---------------------------------------------------------------------------
(* ExponentialBackOff *)

DEFAULT_MAX_DELAY_SEC == 60

\* A failure() that forgets to seed a zero delay.
FailureNoSeed(d) == d * 2

\* failure(): the new _delay.
BackOffFailure(d) == IF d * 2 = 0 THEN 1 ELSE d * 2

\* A reset() that leaves the delay as it is.
ResetKeepsDelay == delay

\* reset(): the new _delay.
BackOffReset == 0

\* current_delay_sec
CurrentDelaySec(d, m) == IF d < m THEN d ELSE m

current_delay_sec == CurrentDelaySec(delay, max_delay)


\* ExponentialBackOff on its own: failure() is called at most this many times in a row.
MaxBoFailures == 8

RECURSIVE Pow2(_)
Pow2(n) == IF n = 0 THEN 1 ELSE 2 * Pow2(n - 1)

BoIdle == /\ delay = 0
          /\ max_delay = DEFAULT_MAX_DELAY_SEC
          /\ failures = 0

---------------------------------------------------------------------------
(* ConnectionManager *)

\* Pairs the factory returns; connect_loop() calls; the elapsed time saturates here.
MaxConns == 3
MaxRuns == 2
ElapsedCap == 5

DEFAULT_CONNECTION_LOST_BACK_OFF_SLEEP_SEC == 5

\* __init__ assigns both attributes from the SLEEP_SEC default.
connection_lost_back_off_threshold == DEFAULT_CONNECTION_LOST_BACK_OFF_SLEEP_SEC
connection_lost_back_off_sleep_sec == DEFAULT_CONNECTION_LOST_BACK_OFF_SLEEP_SEC

NoTask == [pc |-> "none", sleep_time |-> 0, close_seen |-> FALSE]
NewTask == [pc |-> "start", sleep_time |-> 0, close_seen |-> FALSE]
\* A finished task keeps nothing.
Finished == [pc |-> "done", sleep_time |-> 0, close_seen |-> FALSE]
NewConn == [closed |-> FALSE, done |-> FALSE, close_calls |-> 0]

Orphans == BagToSet(orphans)
ConnIds == DOMAIN conns

\* wait() returned with the task still pending: nothing cancels it, it runs on.
\* A task that is over is dropped.
LeftPending(t, bag) ==
    IF t.pc \in {"sleep", "connecting"}
    THEN bag (+) SetToBag({[t EXCEPT !.sleep_time = 0]})
    ELSE bag

\* transport.close(): idempotent, connection_lost is scheduled by the first call.
TransportClose(c) == [c EXCEPT !.closed = TRUE, !.close_calls = @ + 1]

\* A breaker that also counts a gap of exactly the threshold as recent.
RecentInclusive(elapsed, old) == IF elapsed # None
                                 THEN elapsed <= connection_lost_back_off_threshold
                                 ELSE old

\* _update_connection_lost_circuit_breaker: the new flag, given now - last_time.
CircuitBreakerFlag(elapsed, old) == IF elapsed # None
                                    THEN elapsed < connection_lost_back_off_threshold
                                    ELSE old

\* A back-off that looks at the connect delay only.
BackOffIgnoresBreaker(cur, recent) == cur

\* A back-off that adds the two delays.
BackOffTimeSum(cur, recent) == cur + (IF recent THEN connection_lost_back_off_sleep_sec ELSE 0)

\* _get_back_off_time
GetBackOffTime(cur, recent) ==
    IF cur > 0 \/ recent
    THEN Max(cur, IF recent THEN connection_lost_back_off_sleep_sec ELSE 0)
    ELSE 0

\* A loop that tests the flag only after its body.
LoopBodyFirst(closing) == TRUE

\* A loop that also gives up after a failed attempt.
LoopStopsOnFailure(closing) == ~closing /\ delay = 0

\* connect_loop's while condition.
LoopContinues(closing) == ~closing

\* A connect_loop that returns with the flag as it is.
FlagKeptAfterLoop(closing) == closing

\* _is_closing.clear() after the while loop: the flag afterwards.
FlagAfterLoop(closing) == FALSE

\* A loop that counts every end of the second wait() as a loss.
AlwaysCountedAsLost(closing) == TRUE

\* The test after the second wait(): the connection was lost, not closed.
ConnectionWasLost(closing) == ~closing

\* A wait that is over only when the close waiter fired.
AwaitCloseOnly(first, closed) == closed

\* A wait that is not raced against the close waiter.
AwaitFirstOnly(first, closed) == first

\* wait(..., return_when=FIRST_COMPLETED) is over.
FirstCompleted(first, closed) == first \/ closed

\* A close() that keeps the stored reference.
CloseKeepsReference(closing, conn, cs) ==
    [closing |-> TRUE,
     conn |-> conn,
     cs |-> IF conn # None THEN [cs EXCEPT ![conn] = TransportClose(@)] ELSE cs]

\* close(): the new flag, _connection and transports.
CloseEffect(closing, conn, cs) ==
    [closing |-> TRUE,
     conn |-> None,
     cs |-> IF conn # None THEN [cs EXCEPT ![conn] = TransportClose(@)] ELSE cs]

CmInit == /\ is_closing = FALSE
          /\ connection = None
          /\ lost_sleep = FALSE
          /\ lost_elapsed = None
          /\ loop_pc = "idle"
          /\ loop_protocol = None
          /\ waiter = "none"
          /\ task = NoTask
          /\ orphans = EmptyBag
          /\ conns = <<>>
          /\ runs = 0

\* close()
Close ==
    LET r == CloseEffect(is_closing, connection, conns) IN
    /\ is_closing' = r.closing
    /\ connection' = r.conn
    /\ conns' = r.cs
    /\ waiter' = IF waiter = "pending" THEN "done" ELSE waiter
    /\ task' = IF task.pc \in {"sleep", "connecting"}
               THEN [task EXCEPT !.close_seen = TRUE]
               ELSE task
    /\ UNCHANGED <<lost_sleep, lost_elapsed, loop_pc, loop_protocol, orphans, runs>>
    /\ UNCHANGED <<bo_vars, pr_vars>>

\* The while test of connect_loop and what follows it up to the next await:
\* either the first wait() is entered with a new _try_connect() task and a new
\* _is_closing.wait() task, or the loop ends and the flag is cleared.
LoopTop ==
    IF LoopContinues(is_closing)
    THEN /\ task' = NewTask
         /\ waiter' = IF is_closing THEN "done" ELSE "pending"
         /\ loop_pc' = "wait_connect"
         /\ UNCHANGED is_closing
    ELSE /\ is_closing' = FlagAfterLoop(is_closing)
         /\ loop_pc' = "idle"
         /\ waiter' = "none"
         /\ task' = NoTask

\* connect_loop() is called while no connect_loop() is running.
ConnectLoopCall ==
    /\ loop_pc = "idle"
    /\ runs < MaxRuns
    /\ runs' = runs + 1
    /\ LoopTop
    /\ UNCHANGED <<connection, lost_sleep, lost_elapsed, loop_protocol, orphans, conns>>
    /\ UNCHANGED <<bo_vars, pr_vars>>

\* The first wait() returns: _try_connect() finished or the close waiter fired.
\* Both tasks of the wait() are queued to start before any of them can
\* complete, so _try_connect() has run to its first await (or to its end) by
\* the time connect_loop() is resumed.
LoopAfterConnect ==
    /\ loop_pc = "wait_connect"
    /\ task.pc # "start"
    /\ FirstCompleted(task.pc = "done", waiter = "done")
    /\ orphans' = LeftPending(task, orphans)
    /\ IF connection # None
       THEN /\ loop_protocol' = connection
            /\ loop_pc' = "wait_done"
            /\ waiter' = IF is_closing THEN "done" ELSE "pending"
            /\ task' = NoTask
            /\ UNCHANGED is_closing
       ELSE /\ LoopTop
            /\ UNCHANGED loop_protocol
    /\ UNCHANGED <<connection, lost_sleep, lost_elapsed, conns, runs>>
    /\ UNCHANGED <<bo_vars, pr_vars>>

\* The second wait() returns: protocol.done is set or the close waiter fired.
LoopAfterDone ==
    /\ loop_pc = "wait_done"
    /\ FirstCompleted(conns[loop_protocol].done, waiter = "done")
    /\ IF ConnectionWasLost(is_closing)
       THEN /\ lost_sleep' = CircuitBreakerFlag(lost_elapsed, lost_sleep)
            /\ lost_elapsed' = 0
       ELSE UNCHANGED <<lost_sleep, lost_elapsed>>
    /\ connection' = None
    /\ loop_protocol' = None
    /\ LoopTop
    /\ UNCHANGED <<orphans, conns, runs>>
    /\ UNCHANGED <<bo_vars, pr_vars>>

\* A step of a _try_connect() task takes it from t to u: the task the wait()
\* holds, or one of those left pending.
TaskStep(held, t, u) ==
    IF held
    THEN /\ task' = u
         /\ UNCHANGED orphans
    ELSE /\ orphans' = (orphans (-) SetToBag({t})) (+)
                       (IF u.pc = "done" THEN EmptyBag ELSE SetToBag({u}))
         /\ UNCHANGED task

\* _try_connect after the back-off: the is_set() test and the factory call.
AfterBackOff(t) ==
    IF ~is_closing
    THEN [t EXCEPT !.pc = "connecting", !.sleep_time = 0]
    ELSE Finished

\* _try_connect starts: the back-off time is computed, and slept if positive.
TryConnectStart(held, t) ==
    /\ t.pc = "start"
    /\ LET st == GetBackOffTime(current_delay_sec, lost_sleep) IN
       IF st > 0
       THEN TaskStep(held, t, [t EXCEPT !.pc = "sleep", !.sleep_time = st])
       ELSE TaskStep(held, t, AfterBackOff(t))
    /\ UNCHANGED <<is_closing, connection, lost_sleep, lost_elapsed, loop_pc,
                   loop_protocol, waiter, conns, runs>>
    /\ UNCHANGED <<bo_vars, pr_vars>>

\* sleep(sleep_time) is over. How long the sleep takes is not tied to Tick: it
\* ends at some later step, so every timing the real sleep allows is covered.
TryConnectWake(held, t) ==
    /\ t.pc = "sleep"
    /\ TaskStep(held, t, AfterBackOff(t))
    /\ UNCHANGED <<is_closing, connection, lost_sleep, lost_elapsed, loop_pc,
                   loop_protocol, waiter, conns, runs>>
    /\ UNCHANGED <<bo_vars, pr_vars>>

\* The factory returns a pair: it is stored and the back-off is reset.
FactoryReturns(held, t) ==
    /\ t.pc = "connecting"
    /\ Len(conns) < MaxConns
    /\ conns' = Append(conns, NewConn)
    /\ connection' = Len(conns) + 1
    /\ delay' = BackOffReset
    /\ failures' = 0
    /\ TaskStep(held, t, Finished)
    /\ UNCHANGED <<is_closing, lost_sleep, lost_elapsed, loop_pc, loop_protocol,
                   waiter, runs, max_delay>>
    /\ UNCHANGED pr_vars

\* The factory raises an Exception: _connection is cleared, failure() is called.
FactoryRaises(held, t) ==
    /\ t.pc = "connecting"
    /\ failures < MaxFailures
    /\ connection' = None
    /\ delay' = BackOffFailure(delay)
    /\ failures' = failures + 1
    /\ TaskStep(held, t, Finished)
    /\ UNCHANGED <<is_closing, lost_sleep, lost_elapsed, loop_pc, loop_protocol,
                   waiter, conns, runs, max_delay>>
    /\ UNCHANGED pr_vars

\* The transport fails or reaches EOF: it closes itself and schedules connection_lost.
TransportLost(c) ==
    /\ ~conns[c].closed
    /\ conns' = [conns EXCEPT ![c] = [@ EXCEPT !.closed = TRUE]]
    /\ UNCHANGED <<is_closing, connection, lost_sleep, lost_elapsed, loop_pc,
                   loop_protocol, waiter, task, orphans, runs>>
    /\ UNCHANGED <<bo_vars, pr_vars>>

\* protocol.connection_lost: the transport is closed and done is set.
ConnectionLost(c) ==
    /\ conns[c].closed
    /\ ~conns[c].done
    /\ conns' = [conns EXCEPT ![c] = [TransportClose(@) EXCEPT !.done = TRUE]]
    /\ UNCHANGED <<is_closing, connection, lost_sleep, lost_elapsed, loop_pc,
                   loop_protocol, waiter, task, orphans, runs>>
    /\ UNCHANGED <<bo_vars, pr_vars>>

\* One second passes since the last unexpected disconnect.
Tick ==
    /\ lost_elapsed # None
    /\ lost_elapsed < ElapsedCap
    /\ lost_elapsed' = lost_elapsed + 1
    /\ UNCHANGED <<is_closing, connection, lost_sleep, loop_pc, loop_protocol,
                   waiter, task, orphans, conns, runs>>
    /\ UNCHANGED <<bo_vars, pr_vars>>

\* A protocol instance after __init__.
LcIdle == /\ transport = None
          /\ done = FALSE
          /\ done_sets = 0
          /\ close_error = FALSE
          /\ lost_error = FALSE

PrIdle == /\ reader_candidates = <<>>
          /\ selected_reader = None
          /\ policy = "message"
          /\ queue = <<>>
          /\ chunk_out = <<>>
          /\ fed = <<>>
          /\ n_read = 0
          /\ would_win = {}
          /\ LcIdle

Init == BoIdle /\ PrIdle /\ CmInit

Next ==
    \/ Close
    \/ ConnectLoopCall
    \/ LoopAfterConnect
    \/ LoopAfterDone
    \/ TryConnectStart(TRUE, task)
    \/ TryConnectWake(TRUE, task)
    \/ FactoryReturns(TRUE, task)
    \/ FactoryRaises(TRUE, task)
    \/ \E o \in Orphans : TryConnectWake(FALSE, o)
    \/ \E o \in Orphans : FactoryReturns(FALSE, o)
    \/ \E o \in Orphans : FactoryRaises(FALSE, o)
    \/ \E c \in ConnIds : TransportLost(c)
    \/ \E c \in ConnIds : ConnectionLost(c)
    \/ Tick

Spec == Init /\ [][Next]_vars

---------------------------------------------------------------------------
(* SmartMeterBaseProtocol.data_received and the two message_received *)

\* Reader candidates given to __init__; messages all read() calls together may
\* extract; message_received calls and payload length when a policy is explored alone.
MaxReaders == 3
MaxRead == 4
MaxCalls == 2
MaxPayloadLen == 2

RECURSIVE SeqsUpTo(_, _)
SeqsUpTo(S, n) ==
    IF n = 0 THEN {<<>>}
    ELSE LET shorter == SeqsUpTo(S, n - 1)
         IN  shorter \cup {Append(q, x) : q \in {r \in shorter : Len(r) = n - 1}, x \in S}

\* message.payload: None, or bytes. <<>> stands for None and <<b>> for the bytes b.
NoPayload == <<>>
Bytes(b) == <<b>>
ByteValues == {0, 255}

\* What a reader may hand to data_received: a validity flag and a payload.
ProbeMessages ==
    [is_valid : BOOLEAN, payload : {Bytes(<<>>), Bytes(<<255>>)}]
AllMessages ==
    [is_valid : BOOLEAN,
     payload : {NoPayload} \cup {Bytes(b) : b \in SeqsUpTo(ByteValues, MaxPayloadLen)}]

\* A policy that forwards the payload of invalid messages too.
PayloadOfAnyMessage(q, msg) ==
    IF msg.payload # NoPayload /\ Len(msg.payload[1]) > 0
    THEN Append(q, msg.payload[1])
    ELSE q

\* SmartMeterMessagePayloadProtocol.message_received: the queue afterwards.
PayloadMessageReceived(q, msg) ==
    IF msg.is_valid
    THEN IF msg.payload # NoPayload /\ Len(msg.payload[1]) > 0
         THEN Append(q, msg.payload[1])
         ELSE q
    ELSE q

\* SmartMeterMessageProtocol.message_received: the queue afterwards.
MessageMessageReceived(q, msg) == Append(q, msg)

\* message_received of the subclass in use.
MessageReceived(pol, q, msg) ==
    IF pol = "message" THEN MessageMessageReceived(q, msg)
    ELSE PayloadMessageReceived(q, msg)

\* for msg in messages: self.message_received(msg)
RECURSIVE ForwardAll(_, _, _)
ForwardAll(pol, q, messages) ==
    IF messages = <<>> THEN q
    ELSE ForwardAll(pol, MessageReceived(pol, q, Head(messages)), Tail(messages))

\* A probe that looks at the first message of a chunk only.
FirstIsValid(messages) == messages # <<>> /\ messages[1].is_valid

\* The inner loop of the probe: some message of the chunk is valid.
AnyValid(messages) == \E j \in DOMAIN messages : messages[j].is_valid

\* A winner whose messages before the first valid one are dropped.
RECURSIVE FromFirstValid(_)
FromFirstValid(messages) ==
    IF messages = <<>> \/ messages[1].is_valid THEN messages
    ELSE FromFirstValid(Tail(messages))

\* The messages of the winner's chunk that are forwarded at selection.
ForwardedAtSelection(messages) == messages

\* A probe that forwards what the last candidate extracted, winner or not.
LastCandidateForwarded(out) == IF out = <<>> THEN <<>> ELSE out[Len(out)]

\* What is forwarded when no candidate has a valid message: the forwarding
\* loop is under `if self._selected_reader`.
ForwardedWhenProbing(out) == <<>>

\* A probe that goes through all the candidates and takes the last one
\* holding a valid message.
ProbeLastValid(cands, out, k) ==
    LET valid == {j \in k .. Len(cands) : AnyValid(out[j])} IN
    IF valid = {}
    THEN [selected |-> None, fed |-> cands, messages |-> ForwardedWhenProbing(out)]
    ELSE LET j == CHOOSE x \in valid : \A y \in valid : y <= x
         IN  [selected |-> cands[j],
              fed |-> SubSeq(cands, 1, j),
              messages |-> ForwardedAtSelection(out[j])]

\* The probe loop over the candidates from the k-th on, out[k] being what the
\* k-th candidate's read() returns: the reader selected (or None), the readers
\* read, and the messages to forward.
RECURSIVE Probe(_, _, _)
Probe(cands, out, k) ==
    IF k > Len(cands)
    THEN [selected |-> None, fed |-> cands, messages |-> ForwardedWhenProbing(out)]
    ELSE IF AnyValid(out[k])
         THEN [selected |-> cands[k],
               fed |-> SubSeq(cands, 1, k),
               messages |-> ForwardedAtSelection(out[k])]
         ELSE Probe(cands, out, k + 1)

\* What the read() calls of one data_received may return, the candidates from
\* the k-th on being read in order until one has a valid message, with at most
\* n messages in all.
RECURSIVE ProbeOutputs(_, _, _)
ProbeOutputs(cands, k, n) ==
    IF k > Len(cands) THEN {<<>>}
    ELSE UNION {IF AnyValid(m) THEN {<<m>>}
                ELSE {<<m>> \o rest : rest \in ProbeOutputs(cands, k + 1, n - Len(m))}
                : m \in SeqsUpTo(ProbeMessages, n)}

\* What a candidate that is not read would have returned for the chunk:
\* nothing, an invalid message or a valid one.
UnreadMessages ==
    {<<>>, <<[is_valid |-> FALSE, payload |-> Bytes(<<255>>)]>>,
     <<[is_valid |-> TRUE, payload |-> Bytes(<<255>>)]>>}

RECURSIVE UnreadOutputs(_)
UnreadOutputs(k) ==
    IF k = 0 THEN {<<>>}
    ELSE {<<m>> \o rest : m \in UnreadMessages, rest \in UnreadOutputs(k - 1)}

RECURSIVE TotalLen(_)
TotalLen(out) == IF out = <<>> THEN 0 ELSE Len(Head(out)) + TotalLen(Tail(out))

\* A selection that keeps the candidate list.
CandidatesKept(cands, selected) == cands

\* _reader_candidates after the probe: cleared when a reader was selected.
CandidatesAfter(cands, selected) == IF selected # None THEN <<>> ELSE cands

\* data_received while a reader is selected.
DataReceivedSelected ==
    /\ selected_reader # None
    /\ \E m \in SeqsUpTo(ProbeMessages, MaxRead - n_read) :
          /\ chunk_out' = <<m>>
          /\ fed' = <<selected_reader>>
          /\ n_read' = n_read + Len(m)
          /\ queue' = ForwardAll(policy, queue, m)
          /\ would_win' = {}
    /\ UNCHANGED <<reader_candidates, selected_reader, policy, lc_vars>>
    /\ UNCHANGED <<bo_vars, cm_vars>>

\* data_received while probing. out[k] is what the k-th candidate returns
\* if it is read; the candidates after the selected one are not read.
DataReceivedProbing ==
    /\ selected_reader = None
    /\ \E first \in ProbeOutputs(reader_candidates, 1, MaxRead - n_read) :
       \E rest \in UnreadOutputs(Len(reader_candidates) - Len(first)) :
          LET out == first \o rest
              r == Probe(reader_candidates, out, 1)
              read == SubSeq(out, 1, Len(r.fed))
          IN
          /\ chunk_out' = read
          /\ fed' = r.fed
          /\ n_read' = n_read + TotalLen(read)
          /\ would_win' = {k \in DOMAIN out : AnyValid(out[k])}
          /\ selected_reader' = r.selected
          /\ reader_candidates' = CandidatesAfter(reader_candidates, r.selected)
          /\ queue' = ForwardAll(policy, queue, r.messages)
    /\ UNCHANGED <<policy, lc_vars>>
    /\ UNCHANGED <<bo_vars, cm_vars>>

InitProtocol ==
    /\ reader_candidates \in {[i \in 1 .. n |-> i] : n \in 1 .. MaxReaders}
    /\ selected_reader = None
    /\ policy \in {"message", "payload"}
    /\ queue = <<>>
    /\ chunk_out = <<>>
    /\ fed = <<>>
    /\ n_read = 0
    /\ would_win = {}
    /\ LcIdle
    /\ BoIdle
    /\ CmInit

NextProtocol == DataReceivedSelected \/ DataReceivedProbing

SpecProtocol == InitProtocol /\ [][NextProtocol]_vars

\* SmartMeterMessagePayloadProtocol.message_received on its own, for any message.
PayloadReceives ==
    /\ n_read < MaxCalls
    /\ \E msg \in AllMessages :
          /\ chunk_out' = <<msg>>
          /\ queue' = PayloadMessageReceived(queue, msg)
    /\ n_read' = n_read + 1
    /\ UNCHANGED <<reader_candidates, selected_reader, policy, fed, would_win, lc_vars>>
    /\ UNCHANGED <<bo_vars, cm_vars>>

InitPayload ==
    /\ reader_candidates = <<>>
    /\ selected_reader = None
    /\ policy = "payload"
    /\ queue = <<>>
    /\ chunk_out = <<>>
    /\ fed = <<>>
    /\ n_read = 0
    /\ would_win = {}
    /\ LcIdle
    /\ BoIdle
    /\ CmInit

NextPayload == PayloadReceives

SpecPayload == InitPayload /\ [][NextPayload]_vars

---------------------------------------------------------------------------
(* A protocol instance from connection_made to connection_lost. The        *)
(* transport calls connection_made once, then data_received any number of  *)
(* times, then connection_lost once.                                       *)

\* A connection_lost that lets the error of transport.close() through.
ConnectionLostPropagates(tr, close_raises) ==
    [transport |-> IF tr # None /\ ~close_raises THEN None ELSE tr,
     done |-> ~(tr # None /\ close_raises),
     raised |-> tr # None /\ close_raises]

\* connection_lost: _transport and _done afterwards, and whether it raised.
\* transport.close() is tried when _transport is set; its error is logged.
ConnectionLostEffect(tr, close_raises) ==
    [transport |-> IF tr # None /\ ~close_raises THEN None ELSE tr,
     done |-> TRUE,
     raised |-> FALSE]

\* connection_made
ConnectionMade ==
    /\ transport = None
    /\ ~done
    /\ transport' = 1
    /\ UNCHANGED <<done, done_sets, close_error, lost_error>>
    /\ UNCHANGED <<reader_candidates, selected_reader, policy, queue, chunk_out, fed, n_read,
                   would_win>>
    /\ UNCHANGED <<bo_vars, cm_vars>>

\* connection_lost, transport.close() raising or not.
ProtocolConnectionLost ==
    /\ transport # None
    /\ ~done
    /\ \E close_raises \in BOOLEAN :
          LET r == ConnectionLostEffect(transport, close_raises) IN
          /\ transport' = r.transport
          /\ done' = r.done
          /\ done_sets' = done_sets + (IF r.done THEN 1 ELSE 0)
          /\ close_error' = close_raises
          /\ lost_error' = r.raised
    /\ UNCHANGED <<reader_candidates, selected_reader, policy, queue, chunk_out, fed, n_read,
                   would_win>>
    /\ UNCHANGED <<bo_vars, cm_vars>>

\* data_received comes between connection_made and connection_lost.
Connected == transport # None /\ ~done

NextLifecycle ==
    \/ ConnectionMade
    \/ Connected /\ DataReceivedSelected
    \/ Connected /\ DataReceivedProbing
    \/ ProtocolConnectionLost

SpecLifecycle == InitProtocol /\ [][NextLifecycle]_vars

---------------------------------------------------------------------------
(* ExponentialBackOff on its own, for any sequence of failure() and reset() *)

BoFailure ==
    /\ failures < MaxBoFailures
    /\ delay' = BackOffFailure(delay)
    /\ failures' = failures + 1
    /\ UNCHANGED <<max_delay, pr_vars, cm_vars>>

BoReset ==
    /\ delay' = BackOffReset
    /\ failures' = 0
    /\ UNCHANGED <<max_delay, pr_vars, cm_vars>>

InitBackOff ==
    /\ delay = 0
    /\ failures = 0
    /\ max_delay \in (0 .. MaxCap) \cup {DEFAULT_MAX_DELAY_SEC}
    /\ PrIdle
    /\ CmInit

NextBackOff == BoFailure \/ BoReset

SpecBackOff == InitBackOff /\ [][NextBackOff]_vars

---------------------------------------------------------------------------
(* The event loop runs what is ready: a resumed connect_loop(), a started or *)
(* woken _try_connect(), a scheduled connection_lost, and time passes. The   *)
(* factory's answer, a transport failure and the callers of close() and      *)
(* connect_loop() are left to the environment.                               *)

Fairness ==
    /\ WF_vars(LoopAfterConnect)
    /\ WF_vars(LoopAfterDone)
    /\ WF_vars(TryConnectStart(TRUE, task))
    /\ WF_vars(TryConnectWake(TRUE, task))
    /\ WF_vars(\E c \in ConnIds : ConnectionLost(c))
    /\ WF_vars(Tick)

FairSpec == Spec /\ Fairness

\* connect_loop() running with close() never called: no wait() leaves a task
\* pending. Every factory call ends, and a factory that is called again and
\* again returns a pair at some call.
NextNoClose ==
    \/ ConnectLoopCall
    \/ LoopAfterConnect
    \/ LoopAfterDone
    \/ TryConnectStart(TRUE, task)
    \/ TryConnectWake(TRUE, task)
    \/ FactoryReturns(TRUE, task)
    \/ FactoryRaises(TRUE, task)
    \/ \E c \in ConnIds : TransportLost(c)
    \/ \E c \in ConnIds : ConnectionLost(c)
    \/ Tick

FactoryFairness ==
    /\ WF_vars(FactoryReturns(TRUE, task) \/ FactoryRaises(TRUE, task))
    /\ SF_vars(FactoryReturns(TRUE, task))

SpecNoClose == Init /\ [][NextNoClose]_vars /\ Fairness /\ FactoryFairness

---------------------------------------------------------------------------
(* Claims *)

LoopRunning == loop_pc # "idle"
LoopReturned == loop_pc = "idle"

\* C1: after close() is called while connect_loop() is running, connect_loop()
\* eventually returns, whether it is at the back-off sleep, at the in-flight
\* factory call or at the wait for the protocol's done.
C1_CloseEndsLoop ==
    (is_closing /\ loop_pc \in {"wait_connect", "wait_done"}) ~> LoopReturned

C1_Witness ==
    /\ is_closing
    /\ loop_pc = "wait_connect"
    /\ task.pc = "connecting"
    /\ task.close_seen

\* The attempt t, awaiting the factory after close() was called, is over in
\* this step.
ClosedAttemptEnds(held, t) ==
    /\ t.close_seen
    /\ t.pc = "connecting"
    /\ IF held THEN task'.pc = "done"
       ELSE CopiesIn(t, orphans') < CopiesIn(t, orphans)

\* C2: an attempt that was sleeping or awaiting the factory when close() was
\* called never stores a connection and never calls reset() afterwards.
C2_ClosedAttemptStoresNothing ==
    [][((ClosedAttemptEnds(TRUE, task)) \/ (\E o \in Orphans : ClosedAttemptEnds(FALSE, o))) =>
          /\ connection' = None
          /\ UNCHANGED conns
          /\ delay # 0 => delay' # 0]_vars

\* A step of connect_loop() itself: it leaves a wait().
LoopResumed ==
    \/ loop_pc' # loop_pc
    \/ task.pc = "done" /\ task'.pc = "start"

\* C3: connect_loop() returns only when a close request is honoured: while the
\* closing flag is clear a running connect_loop() keeps running, and a failed
\* attempt is followed by a new attempt.
C3_ReturnsOnlyOnClose ==
    [][(LoopRunning /\ ~is_closing) =>
          /\ loop_pc' # "idle"
          /\ (LoopResumed /\ (loop_pc = "wait_done" \/ connection = None)) =>
                /\ loop_pc' = "wait_connect"
                /\ task'.pc = "start"]_vars

C3_Witness ==
    /\ ~is_closing
    /\ loop_pc = "wait_connect"
    /\ task.pc = "start"
    /\ failures >= 2
    /\ \E c \in ConnIds : conns[c].done

\* C4: after n >= 1 failure() calls in a row current_delay_sec is
\* min(2^(n-1), max_delay), after __init__ or reset() it is 0; it never exceeds
\* max_delay and a failure() never lowers it.
C4_BackOffDelay ==
    /\ [](current_delay_sec = IF failures = 0 THEN 0
                              ELSE Min(Pow2(failures - 1), max_delay))
    /\ [](current_delay_sec <= max_delay)
    /\ [][failures' > failures =>
            CurrentDelaySec(delay', max_delay') >= current_delay_sec]_vars
    /\ [][failures' = 0 => CurrentDelaySec(delay', max_delay') = 0]_vars

C4_Witness ==
    /\ max_delay = 60
    /\ failures = 7
    /\ delay = 64
    /\ current_delay_sec = 60

\* The step of connect_loop() that handles an unexpected disconnect.
UnexpectedDisconnect == loop_pc = "wait_done" /\ loop_pc' # "wait_done" /\ ~is_closing

\* C8: on every unexpected disconnect the circuit-breaker flag becomes true
\* exactly when an earlier disconnect exists and lies less than the threshold
\* back, false otherwise (also on the first disconnect), and the time of the
\* last disconnect becomes now. Threshold 5: 2 s apart is true, 10 s apart false.
C8_CircuitBreaker ==
    [][UnexpectedDisconnect =>
          /\ lost_sleep' = (lost_elapsed # None
                            /\ lost_elapsed < connection_lost_back_off_threshold)
          /\ lost_elapsed' = 0
          /\ connection_lost_back_off_threshold = 5 =>
                /\ lost_elapsed = 2 => lost_sleep'
                /\ lost_elapsed >= 5 => ~lost_sleep']_vars

C8_Witness ==
    /\ lost_sleep
    /\ lost_elapsed = 0
    /\ Len(conns) = 2
    /\ loop_pc = "wait_connect"

\* C9: the time slept before a connect attempt is max(connect delay, r), r being
\* connection_lost_back_off_sleep_sec when the circuit-breaker flag is set and 0
\* otherwise: delay 8 with the flag set and sleep 5 gives 8, and nothing is slept
\* when the delay is 0 and the flag is clear.
C9_BackOffIsMax ==
    [][LET r == IF lost_sleep THEN connection_lost_back_off_sleep_sec ELSE 0
           want == Max(current_delay_sec, r)
           Slept(u) == /\ want > 0 => (u.pc = "sleep" /\ u.sleep_time = want)
                       /\ want = 0 => u.pc \in {"connecting", "done"}
                       /\ (current_delay_sec = 8 /\ lost_sleep
                           /\ connection_lost_back_off_sleep_sec = 5) => u.sleep_time = 8
       IN  (task.pc = "start" /\ task'.pc \notin {"start", "none"}) => Slept(task')]_vars

C9_Witness ==
    /\ lost_sleep
    /\ current_delay_sec = 8
    /\ loop_pc = "wait_connect"
    /\ task.pc = "sleep"
    /\ task.sleep_time = 8

\* C10: close() sets the closing flag and, when a connection is stored, closes
\* its transport once and clears the reference; close() called again right
\* after changes nothing and does not close the transport again.
C10_CloseIdempotent ==
    LET once  == CloseEffect(is_closing, connection, conns)
        twice == CloseEffect(once.closing, once.conn, once.cs)
    IN  /\ once.closing
        /\ once.conn = None
        /\ connection # None =>
              /\ once.cs[connection].closed
              /\ once.cs[connection].close_calls = conns[connection].close_calls + 1
        /\ \A c \in ConnIds : c # connection => once.cs[c] = conns[c]
        /\ twice = once

C10_Witness ==
    /\ is_closing
    /\ connection = None
    /\ \E c \in ConnIds : /\ conns[c].closed
                          /\ conns[c].close_calls = 1
                          /\ ~conns[c].done

\* C5: while no reader is selected, a data_received selects a reader exactly when
\* that reader extracts a valid message from the chunk; when every reader read
\* extracts invalid messages only, or none, the protocol keeps probing with all
\* its candidates.
C5_SelectedOnFirstValid ==
    [][selected_reader = None =>
          /\ selected_reader' # None <=>
                \E k \in DOMAIN chunk_out' :
                   \E j \in DOMAIN chunk_out'[k] : chunk_out'[k][j].is_valid
          /\ selected_reader' # None =>
                /\ fed'[Len(fed')] = selected_reader'
                /\ \E j \in DOMAIN chunk_out'[Len(fed')] : chunk_out'[Len(fed')][j].is_valid
          /\ selected_reader' = None =>
                /\ reader_candidates' = reader_candidates
                /\ fed' = reader_candidates]_vars

\* Candidates 1 and 2; 2 is selected by the second message it extracts: the first
\* chunk gave it an invalid message, this one a valid message.
C5_Witness ==
    /\ selected_reader = 2
    /\ fed = <<1, 2>>
    /\ n_read = 2
    /\ Len(chunk_out[2]) = 1
    /\ chunk_out[2][1].is_valid

\* C6: under the whole-message policy the queue gains, in extraction order and
\* once each, every message the selected reader extracts from the chunk that
\* selects it and from every later chunk, valid or not, and nothing else.
C6_WholeMessagesForwarded ==
    [][policy = "message" =>
          IF selected_reader' # None
          THEN queue' = queue \o chunk_out'[Len(fed')]
          ELSE queue' = queue]_vars

C6_Witness ==
    /\ policy = "message"
    /\ selected_reader # None
    /\ fed = <<selected_reader>>
    /\ Len(queue) = 3
    /\ ~queue[1].is_valid
    /\ queue[2].is_valid
    /\ ~queue[3].is_valid
    /\ chunk_out = <<<<queue[3]>>>>

\* C7: the payload-only message_received puts exactly the payload on the queue
\* when the message is valid and its payload is not empty, and nothing when the
\* message is invalid, or valid with no payload or an empty one.
C7_PayloadOnlyForwarding ==
    [][n_read' = n_read + 1 =>
          LET msg == chunk_out'[1] IN
          IF msg.is_valid /\ msg.payload # NoPayload /\ msg.payload # Bytes(<<>>)
          THEN queue' = Append(queue, msg.payload[1])
          ELSE queue' = queue]_vars

C7_Witness ==
    /\ n_read = 2
    /\ queue = <<<<0, 255>>>>
    /\ chunk_out[1].is_valid = FALSE
    /\ chunk_out[1].payload = Bytes(<<255>>)

\* C11: _done is not set before connection_lost, connection_lost sets it once
\* whether or not transport.close() raises, no error leaves connection_lost,
\* and _done stays set afterwards.
C11_DoneSetOnceAtConnectionLost ==
    /\ [](done <=> done_sets = 1)
    /\ [](done_sets <= 1)
    /\ [](~lost_error)
    /\ [][done => done']_vars
    /\ [][(~done /\ done') => (transport # None /\ done_sets' = done_sets + 1)]_vars
    /\ [][(Connected /\ transport' # 1) => done']_vars
    /\ [][(Connected /\ close_error') => done']_vars

\* transport.close() raised inside connection_lost, and a chunk had been
\* received before.
C11_Witness ==
    /\ done
    /\ close_error
    /\ done_sets = 1
    /\ transport = 1
    /\ selected_reader # None

\* C12: connect_loop() returns with the closing flag clear, and a connect_loop()
\* call made after that with no close() in between enters its first wait with a
\* new attempt, which goes on to the factory call and is over only after it.
C12_ReusableAfterReturn ==
    /\ [][(LoopRunning /\ loop_pc' = "idle") => ~is_closing']_vars
    /\ [][(LoopReturned /\ runs >= 1 /\ ~is_closing /\ LoopRunning') =>
             /\ loop_pc' = "wait_connect"
             /\ task' = NewTask
             /\ ~is_closing']_vars
    /\ [][(runs >= 2 /\ ~is_closing /\ ~is_closing' /\ loop_pc = "wait_connect"
           /\ task.pc \in {"start", "sleep"} /\ task' # task) =>
             /\ loop_pc' = "wait_connect"
             /\ task'.pc \in {"sleep", "connecting"}]_vars

\* The second connect_loop() is at its factory call; the first one returned on
\* a close() that found a connection.
C12_Witness ==
    /\ runs = 2
    /\ ~is_closing
    /\ loop_pc = "wait_connect"
    /\ task.pc = "connecting"
    /\ \E c \in ConnIds : conns[c].close_calls >= 1

\* Factory calls in flight, and transports the factory returned that are open.
FactoryCallsInFlight ==
    (IF task.pc = "connecting" THEN 1 ELSE 0)
    + BagCardinality([o \in {x \in Orphans : x.pc = "connecting"} |-> orphans[o]])
OpenTransports == {c \in ConnIds : ~conns[c].closed}

\* C13: the manager has at most one connection in existence: no factory call
\* is in flight while another one is, or while a transport returned earlier
\* is still open.
C13_AtMostOneConnection ==
    FactoryCallsInFlight + Cardinality(OpenTransports) <= 1

\* A factory call is over in this step: that of the task the wait() holds, or
\* that of a task left pending.
FactoryCallEnds ==
    \/ task.pc = "connecting" /\ task'.pc = "done"
    \/ \E o \in Orphans : o.pc = "connecting" /\ CopiesIn(o, orphans') < CopiesIn(o, orphans)

\* C14: a factory call that returns stores the pair and resets the connect
\* delay to 0; one that raises leaves _connection None and calls failure()
\* once; nothing else changes the connect delay. So after k failed attempts in
\* a row the connect delay is min(2^(k-1), max_delay), it is 0 after a success,
\* and an attempt that starts with connect delay 0 and the circuit-breaker flag
\* clear does not sleep.
C14_BackOffUpdatedOncePerAttempt ==
    /\ [][IF FactoryCallEnds
          THEN \/ /\ conns' = Append(conns, NewConn)
                  /\ connection' = Len(conns')
                  /\ delay' = 0
                  /\ failures' = 0
               \/ /\ UNCHANGED conns
                  /\ connection' = None
                  /\ failures' = failures + 1
                  /\ delay' = IF delay = 0 THEN 1 ELSE 2 * delay
          ELSE UNCHANGED <<delay, failures>>]_vars
    /\ [](current_delay_sec = IF failures = 0 THEN 0
                              ELSE Min(Pow2(failures - 1), DEFAULT_MAX_DELAY_SEC))
    /\ [][(task.pc = "start" /\ task'.pc \in {"sleep", "connecting", "done"}) =>
             /\ task'.sleep_time >= current_delay_sec
             /\ ~lost_sleep => task'.sleep_time = current_delay_sec]_vars

\* The attempt after seven failed ones sleeps the capped delay.
C14_Witness ==
    /\ failures = 7
    /\ delay = 64
    /\ ~lost_sleep
    /\ loop_pc = "wait_connect"
    /\ task.pc = "sleep"
    /\ task.sleep_time = DEFAULT_MAX_DELAY_SEC

\* The second wait() of connect_loop() is over in this step.
WaitOnConnectionEnds == loop_pc = "wait_done" /\ loop_pc' # "wait_done"

\* C15: the time of the last disconnect and the circuit-breaker flag change
\* only when the wait on an established connection ends with the closing flag
\* clear; when the flag is set at that moment, also with the protocol's done
\* set, both are left as they are; _connection is None afterwards either way.
C15_BreakerOnlyOnUnexpectedLoss ==
    /\ [][WaitOnConnectionEnds =>
             /\ connection' = None
             /\ is_closing => UNCHANGED <<lost_sleep, lost_elapsed>>
             /\ ~is_closing => (conns[loop_protocol].done /\ lost_elapsed' = 0)]_vars
    /\ [][(lost_sleep' # lost_sleep \/ (lost_elapsed' = 0 /\ lost_elapsed # 0)) =>
             (WaitOnConnectionEnds /\ ~is_closing)]_vars

\* close() was called and the protocol's done is set while connect_loop() is
\* still in its second wait(), one disconnect having been recorded 2 s ago.
C15_Witness ==
    /\ is_closing
    /\ loop_pc = "wait_done"
    /\ conns[loop_protocol].done
    /\ lost_elapsed = 2
    /\ ~lost_sleep

\* C16: the selected reader is set at most once, to one of the candidates, and
\* never changes or goes back to None; the candidate list is empty from the
\* selection on; every chunk received after the selection is read by the
\* selected reader and by no other.
C16_SelectionIsFinal ==
    /\ [](selected_reader # None => reader_candidates = <<>>)
    /\ [][selected_reader # None =>
             /\ selected_reader' = selected_reader
             /\ fed' = <<selected_reader>>
             /\ Len(chunk_out') = 1]_vars
    /\ [][(selected_reader = None /\ selected_reader' # None) =>
             /\ \E k \in DOMAIN reader_candidates : reader_candidates[k] = selected_reader'
             /\ reader_candidates' = <<>>]_vars

\* The third of three candidates was selected; a later chunk gave it an
\* invalid message, and only it was read.
C16_Witness ==
    /\ selected_reader = 3
    /\ reader_candidates = <<>>
    /\ fed = <<3>>
    /\ Len(chunk_out) = 1
    /\ Len(chunk_out[1]) = 1
    /\ ~chunk_out[1][1].is_valid

\* C17: while no reader is selected the queue is empty, under both policies: a
\* chunk from which no candidate extracts a valid message leaves the queue as
\* it is, invalid messages extracted or not, and so does the end of the
\* connection.
C17_NothingForwardedWhileProbing ==
    /\ [](selected_reader = None => queue = <<>>)
    /\ [][selected_reader' = None => queue' = queue]_vars

\* The connection ended with no reader selected, the candidates having
\* extracted invalid messages only.
C17_Witness ==
    /\ selected_reader = None
    /\ Len(reader_candidates) = 2
    /\ n_read = MaxRead
    /\ done
    /\ queue = <<>>
    /\ policy = "message"

\* C18: with close() never called and a factory that succeeds at some call
\* when called again and again, a running connect_loop() gets to hold an
\* established connection (as long as the factory has pairs left to return);
\* after every loss of the connection it awaits, it gets to call the factory
\* again; every back-off sleep ends, and none is longer than the larger of the
\* two back-off limits.
C18_RecoversFromLoss ==
    /\ (loop_pc = "wait_connect" /\ Len(conns) < MaxConns) ~> (loop_pc = "wait_done")
    /\ (loop_pc = "wait_done" /\ conns[loop_protocol].done) ~> (task.pc = "connecting")
    /\ (task.pc = "sleep") ~> (task.pc = "connecting")
    /\ [](task.sleep_time <= Max(DEFAULT_MAX_DELAY_SEC, connection_lost_back_off_sleep_sec))

\* The first connection was lost; the attempts after it failed twice and the
\* factory is being called again.
C18_Witness ==
    /\ ~is_closing
    /\ conns # <<>>
    /\ conns[1].done
    /\ lost_elapsed # None
    /\ failures = 2
    /\ task.pc = "connecting"

\* C19: when connect_loop() returns, close() has been called on every
\* transport the factory has returned so far.
C19_NoTransportLeaked ==
    [][(LoopRunning /\ LoopReturned') =>
          \A c \in DOMAIN conns' : conns'[c].close_calls >= 1]_vars

\* C20: a probing data_received selects the earliest candidate holding a valid
\* message for the chunk, also when later candidates hold one too; the
\* candidates up to the selected one are read, in order, and none after it;
\* with no such candidate, every candidate is read once, in order.
C20_EarliestCandidateWins ==
    [][selected_reader = None =>
          IF would_win' # {}
          THEN LET w == CHOOSE x \in would_win' : \A y \in would_win' : x <= y IN
               /\ selected_reader' = reader_candidates[w]
               /\ fed' = SubSeq(reader_candidates, 1, w)
               /\ Len(chunk_out') = w
          ELSE /\ selected_reader' = None
               /\ fed' = reader_candidates
               /\ Len(chunk_out') = Len(reader_candidates)]_vars

\* Candidates 2 and 3 both hold a valid message for the chunk: 2 is selected
\* after 1 and 2 were read.
C20_Witness ==
    /\ would_win = {2, 3}
    /\ selected_reader = 2
    /\ fed = <<1, 2>>
    /\ Len(chunk_out) = 2

\* C21: the circuit-breaker flag changes only when connect_loop() handles an
\* unexpected disconnect; a factory call that returns or raises leaves it as it
\* is; while it is true every connect attempt sleeps at least
\* connection_lost_back_off_sleep_sec; it goes back to false only at an
\* unexpected disconnect that comes at least the threshold after the previous
\* one, and such a disconnect does set it to false.
C21_BreakerFlagIsSticky ==
    /\ [][lost_sleep' # lost_sleep => UnexpectedDisconnect]_vars
    /\ [][(lost_sleep /\ FactoryCallEnds) => lost_sleep']_vars
    /\ [][(lost_sleep /\ task.pc = "start" /\ task'.pc \notin {"start", "none"}) =>
             /\ task'.pc = "sleep"
             /\ task'.sleep_time >= connection_lost_back_off_sleep_sec]_vars
    /\ [][(lost_sleep /\ ~lost_sleep') =>
             lost_elapsed >= connection_lost_back_off_threshold]_vars
    /\ [][(UnexpectedDisconnect /\ lost_elapsed >= connection_lost_back_off_threshold) =>
             ~lost_sleep']_vars

\* Two connections were lost within the threshold; the flag is still true with
\* the third connection established, close() never having been called.
C21_Witness ==
    /\ lost_sleep
    /\ runs = 1
    /\ ~is_closing
    /\ Len(conns) = 3
    /\ connection = 3
    /\ loop_pc = "wait_done"
    /\ delay = 0

\* C22: a close() made while no connect_loop() is running leaves the closing
\* flag set until connect_loop() is called; that call returns at once, with no
\* attempt started (no sleep, no factory call, connections and back-off as
\* they were), and with the flag clear.
C22_CloseWhileIdleIsKept ==
    /\ [][(LoopReturned /\ is_closing /\ ~is_closing') => runs' = runs + 1]_vars
    /\ [][(LoopReturned /\ is_closing /\ runs' = runs + 1) =>
             /\ LoopReturned'
             /\ ~is_closing'
             /\ task' = NoTask
             /\ waiter' = "none"
             /\ UNCHANGED <<orphans, conns, connection, delay, failures>>]_vars
    /\ [](LoopReturned => (task = NoTask /\ waiter = "none"))

\* close() was called after the first connect_loop() had returned, an attempt
\* of that call being still pending; connect_loop() can be called again.
C22_Witness ==
    /\ LoopReturned
    /\ is_closing
    /\ runs = 1
    /\ orphans # EmptyBag
    /\ connection = None

====
